---- MODULE Spec2Model ----
(***************************************************************************)
(* NotificationManager of src/notification_system.py: the monitor registry *)
(* (active_monitors), the per-monitor checker loop                         *)
(* (_start_monitoring_loop), the four source checkers, the alert pipeline  *)
(* (_process_alert) and the channel dispatchers.                           *)
(*                                                                         *)
(* Every call of setup_person_monitoring is one coroutine c in Calls.  A   *)
(* coroutine is suspended at an await; one action is the code it runs from *)
(* one await to the next; it gives up the event loop only at an await that *)
(* really suspends.  stop_monitoring is synchronous and may run whenever   *)
(* every coroutine is suspended.                                           *)
(***************************************************************************)
EXTENDS Integers, Sequences, FiniteSets, TLC

\* ---------------------------------------------------------------- bounds
MaxCalls == 2      \* calls of setup_person_monitoring
MaxEvents == 3     \* events of the environment in total: records the sources
                   \* report, exceptions raised in checkers, stop_monitoring
                   \* calls, clock advances
SubSecond == 2     \* clock readings told apart within one second

\* ------------------------------------------------------ program constants
CheckIntervalSeconds == 3600
BackoffSeconds == 300
SecondsPerHour == 3600

CheckInterval == CheckIntervalSeconds * SubSecond
Backoff == BackoffSeconds * SubSecond

Calls == 1..MaxCalls
NoTime == -1       \* None in last_check

\* the environment the manager is constructed in: nothing set, or
\* NOTIFICATION_PASSWORD, WEBHOOK_URL and COURTLISTENER_TOKEN all set
Configs == { [ password |-> b, default_url |-> b, token |-> b ] : b \in BOOLEAN }

VARIABLES
    now,              \* datetime.now(), in clock readings
    config,           \* notification_configs / justice_apis read from the environment
    monitors,         \* the monitor_config dict each call created
    active_monitors,  \* self.active_monitors: monitor_id -> the dict registered under it
    alerts_queue,     \* self.alerts_queue
    origin,           \* the calls of _process_alert so far: the loop and cycle that
                      \* made the call (loop 0: send_completion_notification), the
                      \* alert passed
    dispatched,       \* for each entry of alerts_queue: the dispatchers invoked for it
    loops,            \* each coroutine's position and locals
    ret,              \* what each setup_person_monitoring call returned
    stopRet,          \* the stop_monitoring call made in the last step and its result
    atStop,           \* where each loop was when its monitor_id was first stopped
    completion,       \* the send_completion_notification coroutine
    checked,          \* the loop that ran its checkers in the last step, how
                      \* _check_courtlistener came out, and whether a fault was
                      \* injected into one of the other three checkers
    recent,           \* the get_recent_alerts call made in the last step and its result
    delivered,        \* the dispatcher a loop awaited in the last step: for which
                      \* log entry, under which channel name, and how it came out
    events            \* events of the environment so far

vars == << now, config, monitors, active_monitors, alerts_queue, origin,
           dispatched, loops, ret, stopRet, atStop, completion, checked,
           recent, delivered, events >>

\* -------------------------------------------------------- pure functions

\* str.replace(' ', '_')
Replace(s) == [i \in DOMAIN s |-> IF s[i] = " " THEN "_" ELSE s[i]]

\* strftime('%Y%m%d_%H%M%S'): the clock reading cut to whole seconds
Second(t) == t \div SubSecond

\* f"monitor_{person_name.replace(' ', '_')}_{now:%Y%m%d_%H%M%S}"
MonitorId(person_name, t) == << "monitor", Replace(person_name), Second(t) >>

Range(s) == { s[i] : i \in DOMAIN s }

NoMonitor ==
    [ id |-> <<>>, person_name |-> <<>>, person_id |-> "", channels |-> <<>>,
      active |-> FALSE, last_check |-> NoTime, check_interval |-> 0 ]

MonitorConfig(monitor_id, person_name, person_id, channels) ==
    [ id |-> monitor_id, person_name |-> person_name, person_id |-> person_id,
      channels |-> channels, active |-> TRUE, last_check |-> NoTime,
      check_interval |-> CheckInterval ]

CourtlistenerAlert(person_name, opinion, t) ==
    [ id |-> << "cl", opinion, t >>, title |-> "Nuevo Caso Judicial Detectado",
      severity |-> "critical", source |-> "courtlistener",
      target_person |-> person_name, target_id |-> "None", created_at |-> t,
      channels |-> << "email", "webhook" >> ]

\* a custody alert built from a copy of the federal docket one, its source
\* left as it was
VinelinkAlertMistagged(person_name, person_id, t) ==
    [ id |-> << "vine", Replace(person_name), t >>,
      title |-> "Alerta VINELink - Cambio de Estado",
      severity |-> "urgent", source |-> "pacer",
      target_person |-> person_name, target_id |-> person_id, created_at |-> t,
      channels |-> << "email", "sms" >> ]

VinelinkAlert(person_name, person_id, t) ==
    [ id |-> << "vine", Replace(person_name), t >>,
      title |-> "Alerta VINELink - Cambio de Estado",
      severity |-> "urgent", source |-> "vinelink",
      target_person |-> person_name, target_id |-> person_id, created_at |-> t,
      channels |-> << "email", "sms" >> ]

\* f"Nuevo Caso PACER - {case_type}"
PacerTitle(case_type) ==
    IF case_type = "Criminal" THEN "Nuevo Caso PACER - Criminal"
    ELSE "Nuevo Caso PACER - Civil"

PacerAlert(person_name, case_type, t) ==
    [ id |-> << "pacer", Replace(person_name), t >>,
      title |-> PacerTitle(case_type),
      severity |-> IF case_type = "Criminal" THEN "critical" ELSE "warning",
      source |-> "pacer",
      target_person |-> person_name, target_id |-> "None", created_at |-> t,
      channels |-> << "email", "webhook" >> ]

\* f"Caso en Tribunal Estatal - {state}"
StateCourtTitle(state) ==
    IF state = "California" THEN "Caso en Tribunal Estatal - California"
    ELSE "Caso en Tribunal Estatal - Texas"

\* f"state_court_{state.lower()}"
StateCourtSource(state) ==
    IF state = "California" THEN "state_court_california" ELSE "state_court_texas"

\* state.lower()
Lower(state) == IF state = "California" THEN "california" ELSE "texas"

StateCourtAlert(person_name, state, t) ==
    [ id |-> << "state", Lower(state), Replace(person_name), t >>,
      title |-> StateCourtTitle(state),
      severity |-> "warning", source |-> StateCourtSource(state),
      target_person |-> person_name, target_id |-> "None", created_at |-> t,
      channels |-> << "email" >> ]

ErrorAlert(monitor_id, monitor, t) ==
    [ id |-> << "error", monitor_id, t >>, title |-> "Error en Monitoreo",
      severity |-> "warning", source |-> "system",
      target_person |-> monitor.person_name, target_id |-> monitor.person_id,
      created_at |-> t, channels |-> << "email" >> ]

\* ------------------------------------------------------------------ Init

\* no stop_monitoring call was made in the last step
NoCall == [id |-> <<>>, result |-> FALSE, called |-> FALSE]

\* no successful stop_monitoring call for the loop's monitor_id so far
NotStopped == [cyc |-> 0, pc |-> "idle"]

\* no loop ran its checkers in the last step
NoCheck == [loop |-> 0, courtlistener |-> "none", injected |-> FALSE]

\* no dispatcher came back in the last step
NoDelivery == [loop |-> 0, entry |-> 0, channel |-> "none", out |-> "none"]

\* no get_recent_alerts call was made in the last step
NoRecent == [called |-> FALSE, hours |-> 0, at |-> 0, result |-> << >>]

\* send_completion_notification was not called
NoCompletion == [pc |-> "idle", cur |-> 0]

IdleLoop ==
    [ pc |-> "idle", new_alerts |-> <<>>, cur |-> 0, ai |-> 0, ci |-> 0,
      wake |-> 0, cyc |-> 0, handling |-> FALSE, failed |-> {} ]

\* the object __init__ leaves behind: no monitor, an empty log
Constructed ==
    /\ now = 0
    /\ monitors = [c \in Calls |-> NoMonitor]
    /\ active_monitors = << >>
    /\ alerts_queue = << >>
    /\ origin = << >>
    /\ dispatched = << >>
    /\ loops = [c \in Calls |-> IdleLoop]
    /\ ret = [c \in Calls |-> <<>>]
    /\ stopRet = NoCall
    /\ atStop = [c \in Calls |-> NotStopped]
    /\ completion = NoCompletion
    /\ checked = NoCheck
    /\ recent = NoRecent
    /\ delivered = NoDelivery
    /\ events = 0

Init == config \in Configs /\ Constructed

\* ------------------------------------------------- _start_monitoring_loop

\* A coroutine gives up the event loop only where an await really suspends: in
\* asyncio.sleep, in the GET of _check_courtlistener (made only with a token) and
\* in the POST of _send_webhook_alert (made only with a URL).  The other
\* checkers and dispatchers return without suspending (smtplib blocks the event
\* loop), so no other coroutine and no stop_monitoring call runs in between.
Suspended(c) ==
    \/ loops[c].pc \in {"idle", "sleep", "backoff", "returned"}
    \/ loops[c].pc = "check" /\ config.token
    \/ /\ loops[c].pc = "dispatch"
       /\ monitors[c].channels[loops[c].ci] = "webhook"
       /\ config.default_url

\* coroutine c may run: no other coroutine holds the event loop
MayRun(c) == \A d \in Calls \ {c} : Suspended(d)

\* dict assignment d[key] = v
Put(f, key, v) == [x \in DOMAIN f \cup {key} |-> IF x = key THEN v ELSE f[x]]

\* `while monitor["active"]:` -- the loop test: a further cycle, or the loop
\* (and with it setup_person_monitoring) returns
LoopTest(l, active) ==
    IF active
    THEN [l EXCEPT !.pc = "check", !.new_alerts = <<>>, !.cur = 0,
                   !.ai = 0, !.ci = 0, !.wake = 0, !.cyc = @ + 1,
                   !.handling = FALSE, !.failed = {}]
    ELSE [l EXCEPT !.pc = "returned", !.new_alerts = <<>>, !.cur = 0,
                   !.ai = 0, !.ci = 0, !.wake = 0, !.handling = FALSE,
                   !.failed = {}]

\* setup_person_monitoring up to its first await inside the loop: the id is
\* derived, the config is stored under it, the loop is entered and tests
\* monitor["active"]
Start(c, person_name, channels) ==
    /\ loops[c].pc = "idle"
    /\ \A d \in Calls : d < c => loops[d].pc # "idle"
    /\ MayRun(c)
    /\ LET monitor_id == MonitorId(person_name, now)
           monitor_config == MonitorConfig(monitor_id, person_name, "P-1", channels)
       IN /\ monitors' = [monitors EXCEPT ![c] = monitor_config]
          /\ active_monitors' = Put(active_monitors, monitor_id, c)
          /\ loops' = [loops EXCEPT ![c] = LoopTest(@, monitor_config.active)]
    /\ UNCHANGED << now, config, alerts_queue, origin, dispatched, ret,
                    atStop, events >>
    /\ stopRet' = NoCall
    /\ checked' = NoCheck
    /\ delivered' = NoDelivery
    /\ recent' = NoRecent
    /\ UNCHANGED completion

\* _check_courtlistener: without a token it returns at once; a transport error,
\* a status other than 200 and a malformed body all end in `return alerts`.
\* "match_then_malformed": the first opinion matches, a later one has no id;
\* "two_matches": the first two opinions of the results match
CourtlistenerOutcomes ==
    IF config.token
    THEN {"transport_error", "status_500", "malformed", "no_match", "match",
          "match_then_malformed", "two_matches"}
    ELSE {"no_token"}

\* the outcomes in which the GET or the reading of the body raises
CourtlistenerFailures == {"transport_error", "malformed", "match_then_malformed"}

CheckCourtlistener(out, person_name, t) ==
    CASE out \in {"match", "match_then_malformed"} ->
            << CourtlistenerAlert(person_name, 1, t) >>
      [] out = "two_matches" ->
            << CourtlistenerAlert(person_name, 1, t),
               CourtlistenerAlert(person_name, 2, t) >>
      [] OTHER -> << >>

\* _check_vinelink: random.random() < 0.01; the body has no handler, so an
\* exception raised in it reaches the loop
VinelinkOutcomes == {"none", "hit", "raise"}

CheckVinelink(out, person_name, person_id, t) ==
    IF out = "hit" THEN << VinelinkAlert(person_name, person_id, t) >> ELSE << >>

\* _check_pacer: random.random() < 0.02, random.choice(case_types); no handler
PacerOutcomes == {"none", "Criminal", "Civil", "raise"}

CheckPacer(out, person_name, t) ==
    IF out \in {"Criminal", "Civil"} THEN << PacerAlert(person_name, out, t) >>
    ELSE << >>

\* _check_state_courts: random.random() < 0.015, random.choice(states); no handler
StateCourtsOutcomes == {"none", "California", "Texas", "raise"}

CheckStateCourts(out, person_name, t) ==
    IF out \in {"California", "Texas"} THEN << StateCourtAlert(person_name, out, t) >>
    ELSE << >>

\* what checker j hands back under the outcomes outs
CheckerResult(j, outs, monitor, t) ==
    CASE j = 1 -> CheckCourtlistener(outs[1], monitor.person_name, t)
      [] j = 2 -> CheckVinelink(outs[2], monitor.person_name, monitor.person_id, t)
      [] j = 3 -> CheckPacer(outs[3], monitor.person_name, t)
      [] j = 4 -> CheckStateCourts(outs[4], monitor.person_name, t)

\* a _check_courtlistener without its try block
PropagatesUnhandled(j, out) ==
    \/ j = 1 /\ out \in CourtlistenerFailures
    \/ j # 1 /\ out = "raise"

\* checker j lets an exception reach the loop: _check_courtlistener catches
\* Exception around its whole body, the other three have no handler
Propagates(j, out) == j # 1 /\ out = "raise"

\* the first checker that raises, 5 when none does
RaisedAt(outs) ==
    IF \E j \in 1..4 : Propagates(j, outs[j])
    THEN CHOOSE j \in 1..4 :
            /\ Propagates(j, outs[j])
            /\ \A i \in 1..(j - 1) : ~Propagates(i, outs[i])
    ELSE 5

\* a loop that puts each checker's result in front of new_alerts
RECURSIVE ExtendedPrepending(_, _, _, _)
ExtendedPrepending(upto, outs, monitor, t) ==
    IF upto <= 1 THEN << >>
    ELSE CheckerResult(upto - 1, outs, monitor, t)
            \o ExtendedPrepending(upto - 1, outs, monitor, t)

\* new_alerts after the checkers before `upto` returned, in call order:
\* courtlistener, vinelink, pacer, state courts
RECURSIVE Extended(_, _, _, _)
Extended(upto, outs, monitor, t) ==
    IF upto <= 1 THEN << >>
    ELSE Extended(upto - 1, outs, monitor, t) \o CheckerResult(upto - 1, outs, monitor, t)

\* ------------------------------------------------------------ dispatchers

\* a _send_email_alert without the password test: SMTP whatever the config
SendEmailOutcomesUnguarded == {"sent", "smtp_error"}

\* _send_email_alert: no password, nothing is sent; else SMTP, which may raise
SendEmailOutcomes ==
    IF config.password THEN {"sent", "smtp_error"} ELSE {"not_configured"}

\* _send_webhook_alert: no URL, nothing is posted; else one POST, which is
\* answered with a status (200, another 2xx such as 204, an error status) or
\* raises in the transport
SendWebhookOutcomes ==
    IF config.default_url
    THEN {"status_200", "status_204", "status_500", "transport_error"}
    ELSE {"not_configured"}

\* the branches of _process_alert's if/elif chain
Dispatchers == {"email", "webhook", "sms", "slack"}

DispatchOutcomes(channel_name) ==
    CASE channel_name = "email" -> SendEmailOutcomes
      [] channel_name = "webhook" -> SendWebhookOutcomes
      [] OTHER -> {"logged"}

\* the dispatcher reports a failure: the SMTP session or the POST raised, or
\* `response.status_code != 200`
DeliveryFailed(out) ==
    out \in {"smtp_error", "status_204", "status_500", "transport_error"}

\* a channel loop that gives up at the first failed delivery
NextChannelUntilFailure(ci, n, out) == IF DeliveryFailed(out) THEN n + 1 ELSE ci + 1

\* where the channel loop goes on after the dispatcher of channel ci of n came
\* back with `out`: both dispatchers catch Exception and a bad status is only
\* printed, so it is the next channel whatever `out` is
NextChannel(ci, n, out) == ci + 1

\* a channel loop that breaks off at a name without a branch
NextDispatcherBreaks(channels, from) ==
    IF from <= Len(channels) /\ channels[from] \in Dispatchers THEN from ELSE 0

\* the first channel from index `from` on that has a branch in the if/elif
\* chain, 0 when there is none: other names are passed over without an await
NextDispatcher(channels, from) ==
    IF \E i \in from..Len(channels) : channels[i] \in Dispatchers
    THEN CHOOSE i \in from..Len(channels) :
            /\ channels[i] \in Dispatchers
            /\ \A h \in from..(i - 1) : channels[h] \notin Dispatchers
    ELSE 0

\* ------------------------------------------- the loop between two awaits
\* What one coroutine c changes while it runs: the log (with origin and
\* dispatched alongside), its own locals and its dict's last_check.

Current(c) ==
    [ queue |-> alerts_queue, origin |-> origin, dispatched |-> dispatched,
      loop |-> loops[c], last_check |-> monitors[c].last_check ]

\* a loop that hands the alert to a background task instead of awaiting
\* _process_alert: the alert is logged, its dispatch is not waited for
ProcessAlertDetached(R, c, alert, channels) ==
    [ R EXCEPT !.queue = Append(@, alert),
               !.origin = Append(@, [loop |-> c, cyc |-> R.loop.cyc, alert |-> alert]),
               !.dispatched = Append(@, << >>),
               !.loop = [ @ EXCEPT !.ci = 0, !.cur = Len(R.queue) + 1,
                                   !.failed = {} ] ]

\* a _process_alert that drops an alert when the log already holds one with
\* the same title, source and target
ProcessAlertDeduplicated(R, c, alert, channels) ==
    LET nd == NextDispatcher(channels, 1)
        known == \E i \in DOMAIN R.queue :
                    /\ R.queue[i].title = alert.title
                    /\ R.queue[i].source = alert.source
                    /\ R.queue[i].target_person = alert.target_person
    IN IF known
       THEN [ R EXCEPT !.loop = [ @ EXCEPT !.ci = 0 ] ]
       ELSE [ R EXCEPT !.queue = Append(@, alert),
                       !.origin = Append(@, [loop |-> c, cyc |-> R.loop.cyc,
                                             alert |-> alert]),
                       !.dispatched = Append(@, << >>),
                       !.loop = [ @ EXCEPT !.pc = IF nd # 0 THEN "dispatch" ELSE @,
                                           !.ci = nd,
                                           !.cur = Len(R.queue) + 1,
                                           !.failed = {} ] ]

\* a log that is rebuilt from a copy read earlier instead of appended to in
\* place: when another coroutine is inside _process_alert, the entry that one
\* appended is overwritten
ProcessAlertLostUpdate(R, c, alert, channels) ==
    LET nd == NextDispatcher(channels, 1)
        racing == \/ \E d \in Calls \ {c} : loops[d].pc = "dispatch"
                  \/ completion.pc = "post"
    IN [ R EXCEPT !.queue = IF racing /\ Len(@) >= 1
                            THEN Append(SubSeq(@, 1, Len(@) - 1), alert)
                            ELSE Append(@, alert),
                  !.origin = Append(@, [loop |-> c, cyc |-> R.loop.cyc, alert |-> alert]),
                  !.dispatched = Append(@, << >>),
                  !.loop = [ @ EXCEPT !.pc = IF nd # 0 THEN "dispatch" ELSE @,
                                      !.ci = nd,
                                      !.cur = Len(R.origin) + 1,
                                      !.failed = {} ] ]

\* _process_alert up to its first await: self.alerts_queue.append(alert), then
\* the channel loop up to the first dispatcher; ci = 0 when it awaits none
ProcessAlert(R, c, alert, channels) ==
    LET nd == NextDispatcher(channels, 1)
    IN [ R EXCEPT !.queue = Append(@, alert),
                  !.origin = Append(@, [loop |-> c, cyc |-> R.loop.cyc, alert |-> alert]),
                  !.dispatched = Append(@, << >>),
                  !.loop = [ @ EXCEPT !.pc = IF nd # 0 THEN "dispatch" ELSE @,
                                      !.ci = nd,
                                      !.cur = Len(R.queue) + 1,
                                      !.failed = {} ] ]

\* monitor["last_check"] = datetime.now(); await asyncio.sleep(check_interval)
EndCycle(R, check_interval) ==
    [ R EXCEPT !.last_check = now,
               !.loop = [ @ EXCEPT !.pc = "sleep", !.ai = 0, !.ci = 0,
                                   !.wake = now + check_interval ] ]

\* an except block that ends the loop instead of sleeping
Sleep300Return(R) ==
    [ R EXCEPT !.loop = [ @ EXCEPT !.pc = "returned", !.ai = 0, !.ci = 0 ] ]

\* an except block that retries without sleeping
Sleep300Skipped(R) ==
    [ R EXCEPT !.loop = [ @ EXCEPT !.pc = "backoff", !.ai = 0, !.ci = 0,
                                   !.wake = now ] ]

\* an except block that also stamps last_check
Sleep300StampsLastCheck(R) ==
    [ R EXCEPT !.last_check = now,
               !.loop = [ @ EXCEPT !.pc = "backoff", !.ai = 0, !.ci = 0,
                                   !.wake = now + Backoff ] ]

\* await asyncio.sleep(300), the last line of the except block
Sleep300(R) ==
    [ R EXCEPT !.loop = [ @ EXCEPT !.pc = "backoff", !.ai = 0, !.ci = 0,
                                   !.wake = now + Backoff ] ]

\* `for alert in new_alerts: await self._process_alert(alert, monitor["channels"])`
\* from alert number `from` on, up to the next await
RECURSIVE ForAlerts(_, _, _, _)
ForAlerts(R, c, monitor, from) ==
    IF from > Len(R.loop.new_alerts)
    THEN EndCycle(R, monitor.check_interval)
    ELSE LET P == ProcessAlert([R EXCEPT !.loop.ai = from], c,
                               R.loop.new_alerts[from], monitor.channels)
         IN IF P.loop.ci # 0 THEN P ELSE ForAlerts(P, c, monitor, from + 1)

\* `except Exception as e:` -- the error alert is built and handed to
\* _process_alert with the monitor's channels, then the loop sleeps 300 s
Except(R, c, monitor) ==
    LET P == ProcessAlert([R EXCEPT !.loop.handling = TRUE], c,
                          ErrorAlert(monitor.id, monitor, now), monitor.channels)
    IN IF P.loop.ci # 0 THEN P ELSE Sleep300(P)

\* _process_alert returned: inside the try block the alert loop goes on, inside
\* the except block the sleep follows
ProcessAlertReturned(R, c, monitor) ==
    IF R.loop.handling THEN Sleep300(R) ELSE ForAlerts(R, c, monitor, R.loop.ai + 1)

Commit(c, R) ==
    /\ alerts_queue' = R.queue
    /\ origin' = R.origin
    /\ dispatched' = R.dispatched
    /\ loops' = [loops EXCEPT ![c] = R.loop]
    /\ monitors' = [monitors EXCEPT ![c].last_check = R.last_check]

\* the try block from `new_alerts = []` on.  The four checkers are awaited one
\* after the other; between them the loop touches only its local new_alerts.
\* When none raises, `for alert in new_alerts` follows; when one raises, the
\* checkers after it are not called and the except block runs
RunCheckers(c, outs) ==
    /\ loops[c].pc = "check"
    /\ MayRun(c)
    /\ LET j == RaisedAt(outs)
           alerts == Extended(j, outs, monitors[c], now)
           raised == IF j <= 4 THEN 1 ELSE 0
           R == [Current(c) EXCEPT !.loop.new_alerts = alerts]
       IN /\ events + Len(alerts) + raised <= MaxEvents
          /\ events' = events + Len(alerts) + raised
          /\ Commit(c, IF j <= 4 THEN Except(R, c, monitors[c])
                       ELSE ForAlerts(R, c, monitors[c], 1))
    /\ UNCHANGED << now, config, active_monitors, ret, atStop >>
    /\ stopRet' = NoCall
    /\ checked' = [loop |-> c, courtlistener |-> outs[1],
                   injected |-> \E j \in 2..4 : outs[j] = "raise"]
    /\ delivered' = NoDelivery
    /\ recent' = NoRecent
    /\ UNCHANGED completion

\* the dispatcher awaited for channel ci comes back; the channel loop goes on
\* to the next dispatcher, or _process_alert returns
Dispatch(c) ==
    /\ loops[c].pc = "dispatch"
    /\ MayRun(c)
    /\ LET channels == monitors[c].channels
           ci == loops[c].ci
       IN \E out \in DispatchOutcomes(channels[ci]) :
             LET R == [Current(c) EXCEPT
                         !.dispatched[loops[c].cur] = Append(@, channels[ci]),
                         !.loop.failed = IF DeliveryFailed(out)
                                         THEN @ \cup {channels[ci]} ELSE @]
                 nd == NextDispatcher(channels, NextChannel(ci, Len(channels), out))
             IN /\ Commit(c, IF nd # 0 THEN [R EXCEPT !.loop.ci = nd]
                             ELSE ProcessAlertReturned(R, c, monitors[c]))
                /\ delivered' = [loop |-> c, entry |-> loops[c].cur,
                                 channel |-> channels[ci], out |-> out]
    /\ UNCHANGED << now, config, active_monitors, ret, atStop, events >>
    /\ stopRet' = NoCall
    /\ checked' = NoCheck
    /\ recent' = NoRecent
    /\ UNCHANGED completion

\* asyncio.sleep(check_interval) or asyncio.sleep(300) is over: the loop test
Wake(c) ==
    /\ loops[c].pc \in {"sleep", "backoff"}
    /\ now >= loops[c].wake
    /\ MayRun(c)
    /\ loops' = [loops EXCEPT ![c] = LoopTest(@, monitors[c].active)]
    /\ ret' = [ret EXCEPT ![c] = IF monitors[c].active THEN @ ELSE monitors[c].id]
    /\ UNCHANGED << now, config, monitors, active_monitors, alerts_queue,
                    origin, dispatched, atStop, events >>
    /\ stopRet' = NoCall
    /\ checked' = NoCheck
    /\ delivered' = NoDelivery
    /\ recent' = NoRecent
    /\ UNCHANGED completion

\* -------------------------------------------------------- stop_monitoring

UnknownId == << "monitor", << "n", "o" >>, 0 >>

\* a stop that answers True for any id
StopMonitoringAlwaysTrue(monitor_id) ==
    /\ events < MaxEvents
    /\ \A d \in Calls : Suspended(d)
    /\ events' = events + 1
    /\ stopRet' = [id |-> monitor_id, result |-> TRUE, called |-> TRUE]
    /\ monitors' = [c \in Calls |->
                       IF monitor_id \in DOMAIN active_monitors
                          /\ c = active_monitors[monitor_id]
                       THEN [monitors[c] EXCEPT !.active = FALSE] ELSE monitors[c]]
    /\ UNCHANGED << now, config, active_monitors, alerts_queue, origin,
                    dispatched, loops, ret, atStop, completion >>
    /\ checked' = NoCheck
    /\ delivered' = NoDelivery
    /\ recent' = NoRecent

\* a stop that also cancels the loops running under the id
StopMonitoringCancels(monitor_id) ==
    /\ events < MaxEvents
    /\ \A d \in Calls : Suspended(d)
    /\ events' = events + 1
    /\ stopRet' = [id |-> monitor_id, result |-> monitor_id \in DOMAIN active_monitors,
                   called |-> TRUE]
    /\ monitors' = [c \in Calls |->
                       IF monitor_id \in DOMAIN active_monitors
                          /\ c = active_monitors[monitor_id]
                       THEN [monitors[c] EXCEPT !.active = FALSE] ELSE monitors[c]]
    /\ loops' = [c \in Calls |->
                    IF loops[c].pc # "idle" /\ monitors[c].id = monitor_id
                    THEN [loops[c] EXCEPT !.pc = "returned"] ELSE loops[c]]
    /\ atStop' =
          [c \in Calls |->
              IF /\ monitor_id \in DOMAIN active_monitors
                 /\ loops[c].pc # "idle"
                 /\ monitors[c].id = monitor_id
                 /\ atStop[c] = NotStopped
              THEN [cyc |-> loops[c].cyc, pc |-> loops[c].pc] ELSE atStop[c]]
    /\ UNCHANGED << now, config, active_monitors, alerts_queue, origin,
                    dispatched, ret, completion >>
    /\ checked' = NoCheck
    /\ delivered' = NoDelivery
    /\ recent' = NoRecent

StopMonitoring(monitor_id) ==
    /\ events < MaxEvents
    /\ \A d \in Calls : Suspended(d)
    /\ events' = events + 1
    /\ IF monitor_id \in DOMAIN active_monitors
       THEN /\ monitors' = [monitors EXCEPT ![active_monitors[monitor_id]].active = FALSE]
            /\ stopRet' = [id |-> monitor_id, result |-> TRUE, called |-> TRUE]
       ELSE /\ stopRet' = [id |-> monitor_id, result |-> FALSE, called |-> TRUE]
            /\ UNCHANGED monitors
    /\ atStop' =
          [c \in Calls |->
              IF /\ monitor_id \in DOMAIN active_monitors
                 /\ loops[c].pc # "idle"
                 /\ monitors[c].id = monitor_id
                 /\ atStop[c] = NotStopped
              THEN [cyc |-> loops[c].cyc, pc |-> loops[c].pc] ELSE atStop[c]]
    /\ UNCHANGED << now, config, active_monitors, alerts_queue, origin,
                    dispatched, loops, ret, completion >>
    /\ checked' = NoCheck
    /\ delivered' = NoDelivery
    /\ recent' = NoRecent

\* ------------------------------------------- send_completion_notification

\* the alert send_completion_notification builds; target_person is "Sistema"
CompletionAlert(investigation_id, t) ==
    [ id |-> << "completion", investigation_id, t >>,
      title |-> "Investigacion Completada",
      severity |-> "info", source |-> "system",
      target_person |-> << "S", "i", "s", "t", "e", "m", "a" >>,
      target_id |-> investigation_id, created_at |-> t,
      channels |-> << "email" >> ]

\* the channel list it hands to _process_alert
CompletionChannels == << "email", "webhook" >>

\* send_completion_notification up to its first suspension: the alert is built
\* and appended by _process_alert, the email dispatcher runs (it never
\* suspends), and the webhook dispatcher either returns at once (no URL) or
\* suspends in its POST
SendCompletionNotification(investigation_id) ==
    /\ completion.pc = "idle"
    /\ \A d \in Calls : Suspended(d)
    /\ events < MaxEvents
    /\ events' = events + 1
    /\ alerts_queue' = Append(alerts_queue, CompletionAlert(investigation_id, now))
    /\ origin' = Append(origin, [loop |-> 0, cyc |-> 0,
                                 alert |-> CompletionAlert(investigation_id, now)])
    /\ \E out \in SendEmailOutcomes :
          LET nd == NextDispatcher(CompletionChannels,
                                   NextChannel(1, Len(CompletionChannels), out))
          IN IF nd = 0
             THEN /\ dispatched' = Append(dispatched, << "email" >>)
                  /\ completion' = [pc |-> "done", cur |-> Len(alerts_queue) + 1]
             ELSE IF config.default_url
             THEN /\ dispatched' = Append(dispatched, << "email" >>)
                  /\ completion' = [pc |-> "post", cur |-> Len(alerts_queue) + 1]
             ELSE /\ dispatched' = Append(dispatched, << "email", "webhook" >>)
                  /\ completion' = [pc |-> "done", cur |-> Len(alerts_queue) + 1]
    /\ UNCHANGED << now, config, monitors, active_monitors, loops, ret, atStop >>
    /\ stopRet' = NoCall
    /\ checked' = NoCheck
    /\ delivered' = NoDelivery
    /\ recent' = NoRecent

\* the POST of the completion alert comes back, whatever its outcome;
\* _process_alert and send_completion_notification return
CompletionPosted ==
    /\ completion.pc = "post"
    /\ \A d \in Calls : Suspended(d)
    /\ \E out \in SendWebhookOutcomes :
          dispatched' = [dispatched EXCEPT ![completion.cur] = Append(@, "webhook")]
    /\ completion' = [completion EXCEPT !.pc = "done"]
    /\ UNCHANGED << now, config, monitors, active_monitors, alerts_queue, origin,
                    loops, ret, atStop, events >>
    /\ stopRet' = NoCall
    /\ checked' = NoCheck
    /\ delivered' = NoDelivery
    /\ recent' = NoRecent

\* ------------------------------------------------------ get_recent_alerts

\* timedelta(hours=1), in clock readings
Hour == SecondsPerHour * SubSecond

\* [alert for alert in self.alerts_queue if alert.created_at > cutoff_time]
RecentAlerts(queue, hours, t) ==
    LET cutoff_time == t - hours * Hour
    IN SelectSeq(queue, LAMBDA alert : alert.created_at > cutoff_time)

\* a get_recent_alerts that drops the old alerts from the log as it filters
GetRecentAlertsPrunes(hours) ==
    /\ \A d \in Calls : Suspended(d)
    /\ recent' = [called |-> TRUE, hours |-> hours, at |-> now,
                  result |-> RecentAlerts(alerts_queue, hours, now)]
    /\ alerts_queue' = RecentAlerts(alerts_queue, hours, now)
    /\ UNCHANGED << now, config, monitors, active_monitors, origin,
                    dispatched, loops, ret, atStop, completion, events >>
    /\ stopRet' = NoCall
    /\ checked' = NoCheck
    /\ delivered' = NoDelivery

\* get_recent_alerts is synchronous: it reads the clock and the log and writes
\* nothing
GetRecentAlerts(hours) ==
    /\ \A d \in Calls : Suspended(d)
    /\ recent' = [called |-> TRUE, hours |-> hours, at |-> now,
                  result |-> RecentAlerts(alerts_queue, hours, now)]
    /\ UNCHANGED << now, config, monitors, active_monitors, alerts_queue, origin,
                    dispatched, loops, ret, atStop, completion, events >>
    /\ stopRet' = NoCall
    /\ checked' = NoCheck
    /\ delivered' = NoDelivery

\* ------------------------------------------------------------- the clock

\* time passes: to the next clock reading, or to the moment a sleep ends
Tick ==
    /\ events < MaxEvents
    /\ events' = events + 1
    /\ \E t \in {now + 1} \cup { loops[c].wake : c \in
                    { d \in Calls : loops[d].pc \in {"sleep", "backoff"}
                                    /\ loops[d].wake > now } } :
          now' = t
    /\ UNCHANGED << config, monitors, active_monitors, alerts_queue, origin,
                    dispatched, loops, ret, atStop >>
    /\ stopRet' = NoCall
    /\ checked' = NoCheck
    /\ delivered' = NoDelivery
    /\ recent' = NoRecent
    /\ UNCHANGED completion

\* every way the four checkers can come out in one cycle
CheckerOutcomes ==
    CourtlistenerOutcomes \X VinelinkOutcomes \X PacerOutcomes \X StateCourtsOutcomes

\* the registry and the loops' life cycle: several calls, any name; of the
\* sources only the custody lookup reports a record
LifecycleNames == { <<>>, <<"a", " ", "b">>, <<"a", "_", "b">> }
LifecycleChannels == { <<"webhook", "email">> }
LifecycleOutcomes ==
    (CourtlistenerOutcomes \cap {"no_token", "no_match"})
        \X VinelinkOutcomes \X {"none", "raise"}
        \X {"none", "raise"}

Next ==
    \/ \E c \in Calls, person_name \in LifecycleNames, channels \in LifecycleChannels :
          Start(c, person_name, channels)
    \/ \E c \in Calls, outs \in LifecycleOutcomes : RunCheckers(c, outs)
    \/ \E c \in Calls : Dispatch(c)
    \/ \E c \in Calls : Wake(c)
    \/ \E monitor_id \in DOMAIN active_monitors \cup {UnknownId} :
          StopMonitoring(monitor_id)
    \/ Tick

Spec == Init /\ [][Next]_vars

\* one call and its check cycles: every checker outcome, every channel list
CycleNames == { <<"a", " ", "b">> }
CycleChannels ==
    { <<"webhook", "email">>, <<"email", "webhook">>, <<"email", "sms", "webhook">> }

NextCycle ==
    \/ \E person_name \in CycleNames, channels \in CycleChannels :
          Start(1, person_name, channels)
    \/ \E outs \in CheckerOutcomes : RunCheckers(1, outs)
    \/ Dispatch(1)
    \/ Wake(1)
    \/ \E monitor_id \in DOMAIN active_monitors \cup {UnknownId} :
          StopMonitoring(monitor_id)
    \/ Tick

SpecCycle == Init /\ [][NextCycle]_vars

\* the alert log and everything that touches it: one monitor loop, a completion
\* notification, readers and stops; of the sources the custody lookup reports a
\* record and the state courts lookup raises
LogNames == { <<"a">> }
LogChannels == { <<"email", "webhook">> }
LogOutcomes ==
    (CourtlistenerOutcomes \cap {"no_token", "no_match"}) \X {"none", "hit"}
        \X {"none"} \X {"none", "raise"}
LogHours == { 1, 2 }
LogInvestigations == { "INV-1" }

NextLog ==
    \/ \E person_name \in LogNames, channels \in LogChannels :
          Start(1, person_name, channels)
    \/ \E outs \in LogOutcomes : RunCheckers(1, outs)
    \/ Dispatch(1)
    \/ Wake(1)
    \/ \E monitor_id \in DOMAIN active_monitors \cup {UnknownId} :
          StopMonitoring(monitor_id)
    \/ \E investigation_id \in LogInvestigations :
          SendCompletionNotification(investigation_id)
    \/ CompletionPosted
    \/ \E hours \in LogHours : GetRecentAlerts(hours)
    \/ Tick

SpecLog == Init /\ [][NextLog]_vars

\* the writers of the alert log interleaved at their suspension points: the
\* first cycle of several monitor loops and a completion notification, within
\* one reading of the clock
NextWriters ==
    \/ \E c \in Calls, person_name \in LogNames, channels \in LogChannels :
          Start(c, person_name, channels)
    \/ \E c \in Calls, outs \in LogOutcomes : RunCheckers(c, outs)
    \/ \E c \in Calls : Dispatch(c)
    \/ \E investigation_id \in LogInvestigations :
          SendCompletionNotification(investigation_id)
    \/ CompletionPosted

SpecWriters == Init /\ [][NextWriters]_vars

\* the channel loop of _process_alert and the two dispatchers that read the
\* environment: one monitor, the mail password and the webhook URL set or not
\* independently of each other, channel lists with a name that has no branch
\* in the if/elif chain
ChannelConfigs ==
    { [password |-> p, default_url |-> u, token |-> FALSE] : p, u \in BOOLEAN }
ChannelNames == { <<"a", " ", "b">> }
ChannelLists ==
    { <<"webhook">>, <<"email", "webhook">>, <<"email", "chat", "webhook">>,
      <<"chat">> }
ChannelOutcomes == {"no_token"} \X {"none", "hit"} \X {"none", "Criminal"}
                       \X {"none", "raise"}

InitChannels == config \in ChannelConfigs /\ Constructed

NextChannels ==
    \/ \E person_name \in ChannelNames, channels \in ChannelLists :
          Start(1, person_name, channels)
    \/ \E outs \in ChannelOutcomes : RunCheckers(1, outs)
    \/ Dispatch(1)
    \/ Wake(1)
    \/ Tick

SpecChannels == InitChannels /\ [][NextChannels]_vars

\* ------------------------------------------------------------- the claims

Started(c) == loops[c].pc # "idle"

Registered(monitor_id) == monitor_id \in DOMAIN active_monitors

\* the entries of the log a loop appended in one of its cycles
EntriesOf(c, cyc) ==
    { i \in DOMAIN origin : origin[i].loop = c /\ origin[i].cyc = cyc }

\* the entries of the log a loop appended
AppendedBy(c) == { i \in DOMAIN origin : origin[i].loop = c }

IsFaultAlert(alert) ==
    /\ alert.source = "system"
    /\ alert.title = "Error en Monitoreo"

\* the dispatchers _process_alert invokes for a channel list, in list order
DispatchersOf(channels) ==
    SelectSeq(channels, LAMBDA channel_name : channel_name \in Dispatchers)

\* a start call made with a target name that is not empty
Valid(c) == Started(c) /\ monitors[c].person_name # << >>

\* C1: the monitor_ids handed out to any two valid start calls differ, so no
\* start call overwrites the registry entry of an earlier one.
C1_MonitorIdsDistinct ==
    \A c, d \in Calls :
        (c # d /\ Valid(c) /\ Valid(d)) => monitors[c].id # monitors[d].id

\* C2: a start call registers its monitor with active = true and last_check
\* unset and enters its first check cycle in the same step; when the call returns
\* the monitor_id, the registry entry under that id has active = true.
C2_ActiveWhenStartReturns ==
    [][\A c \in Calls :
          /\ (~Started(c) /\ Started(c)') =>
                /\ monitors'[c].active
                /\ monitors'[c].last_check = NoTime
                /\ active_monitors'[monitors'[c].id] = c
                /\ loops'[c].pc = "check"
          /\ (loops[c].pc # "returned" /\ loops'[c].pc = "returned") =>
                /\ ret'[c] \in DOMAIN active_monitors'
                /\ monitors'[active_monitors'[ret'[c]]].active]_vars

\* C3: once stop_monitoring(monitor_id) has returned true and the cycle then in
\* flight is over, no loop started under that monitor_id appends another alert:
\* every entry the loop of a valid start call appended belongs to a cycle it had
\* begun when its id was stopped.
C3_NoAlertAfterStop ==
    \A i \in DOMAIN origin :
        (Valid(origin[i].loop) /\ atStop[origin[i].loop] # NotStopped) =>
            origin[i].cyc <= atStop[origin[i].loop].cyc

\* C4: a stop does not interrupt the cycle in flight.  A loop leaves only from
\* its loop test (after a sleep), never from the middle of a cycle; a cycle that
\* reaches its end has every alert its checkers returned in the log, each with
\* every dispatcher of the channel list invoked, stopped or not; and a loop
\* whose dict is inactive leaves at its loop test without another cycle.
C4_StopIsCooperative ==
    [][\A c \in Calls :
          /\ loops[c].pc \in {"check", "dispatch"} => loops'[c].pc # "returned"
          /\ (loops[c].pc \in {"check", "dispatch"} /\ loops'[c].pc = "sleep") =>
                /\ Len(loops'[c].new_alerts) = Cardinality(EntriesOf(c, loops[c].cyc)')
                /\ \A n \in DOMAIN loops'[c].new_alerts :
                      \E i \in EntriesOf(c, loops[c].cyc)' :
                         /\ alerts_queue'[i] = loops'[c].new_alerts[n]
                         /\ dispatched'[i] = DispatchersOf(monitors[c].channels)
          /\ (loops[c].pc \in {"sleep", "backoff"} /\ ~monitors[c].active) =>
                loops'[c].pc \in {loops[c].pc, "returned"}]_vars

\* C4 witness: a stop came while the cycle was in flight, and the cycle still
\* ended with its alert logged and dispatched.
C4_Witness ==
    \E c \in Calls :
        /\ atStop[c].pc \in {"check", "dispatch"}
        /\ ~monitors[c].active
        /\ loops[c].pc = "sleep"
        /\ loops[c].cyc = atStop[c].cyc
        /\ Len(loops[c].new_alerts) >= 1
        /\ \E i \in EntriesOf(c, loops[c].cyc) :
              dispatched[i] = DispatchersOf(monitors[c].channels)

\* C5: stop_monitoring on a registered id sets the registered monitor's active
\* flag to false and returns true; on an unknown id it returns false and leaves
\* the registry and the alert log as they were.
C5_StopMonitoringResult ==
    [][stopRet'.called =>
          IF Registered(stopRet'.id)
          THEN /\ stopRet'.result
               /\ ~monitors'[active_monitors[stopRet'.id]].active
               /\ active_monitors' = active_monitors
               /\ alerts_queue' = alerts_queue
          ELSE /\ ~stopRet'.result
               /\ monitors' = monitors
               /\ active_monitors' = active_monitors
               /\ alerts_queue' = alerts_queue]_vars

\* C5 witness: a stop of a registered, active monitor has just returned true.
C5_Witness ==
    /\ stopRet.called
    /\ stopRet.result
    /\ Registered(stopRet.id)
    /\ ~monitors[active_monitors[stopRet.id]].active
    /\ loops[active_monitors[stopRet.id]].pc \in {"check", "dispatch", "sleep", "backoff"}

\* C6: when a checker raises, the alerts the other checkers returned in the same
\* cycle are still appended to the log: once the except block has run, every
\* alert held in new_alerts is an entry of the log.
C6_CheckerIsolation ==
    \A c \in Calls :
        loops[c].pc = "backoff" =>
            \A n \in DOMAIN loops[c].new_alerts :
                \E i \in EntriesOf(c, loops[c].cyc) :
                    alerts_queue[i] = loops[c].new_alerts[n]

\* C7: whatever each delivery does (no configuration, success, status 500, a
\* transport or SMTP error), _process_alert invokes the dispatcher of every
\* listed channel, in list order: for an alert whose processing is over these
\* are all dispatchers of the list, for the alert in progress those before the
\* channel now awaited.
C7_ChannelIsolation ==
    \A i \in DOMAIN alerts_queue :
        LET c == origin[i].loop
            channels == monitors[c].channels
        IN IF loops[c].pc = "dispatch" /\ loops[c].cur = i
           THEN dispatched[i] = DispatchersOf(SubSeq(channels, 1, loops[c].ci - 1))
           ELSE dispatched[i] = DispatchersOf(channels)

\* C7 witness: the first channel's delivery failed and a later channel's
\* dispatcher was invoked for the same alert.
C7_Witness ==
    \E c \in Calls :
        /\ Started(c)
        /\ loops[c].cur \in DOMAIN dispatched
        /\ Len(dispatched[loops[c].cur]) >= 2
        /\ dispatched[loops[c].cur][1] \in loops[c].failed

\* C8: an exception escaping the try block does not end the monitor.  The step
\* that catches it appends one alert of severity warning and source "system" and
\* leaves the active flag alone; from there the loop appends nothing more, it
\* only dispatches that alert and sleeps 300 s; and after the sleep it begins a
\* further cycle when the monitor is active (it returns only when the monitor
\* was stopped).
C8_FaultKeepsMonitor ==
    [][\A c \in Calls :
          /\ (~loops[c].handling /\ loops'[c].handling) =>
                /\ Len(alerts_queue') = Len(alerts_queue) + 1
                /\ SubSeq(alerts_queue', 1, Len(alerts_queue)) = alerts_queue
                /\ alerts_queue'[Len(alerts_queue')].severity = "warning"
                /\ IsFaultAlert(alerts_queue'[Len(alerts_queue')])
                /\ monitors'[c].active = monitors[c].active
          /\ loops'[c].handling =>
                /\ loops'[c].pc \in {"dispatch", "backoff"}
                /\ (loops'[c].pc = "backoff" /\ loops[c].pc # "backoff") =>
                      loops'[c].wake = now + Backoff
                /\ loops[c].handling => AppendedBy(c)' = AppendedBy(c)
          /\ (loops[c].pc = "backoff" /\ loops'[c].pc # "backoff") =>
                /\ now >= loops[c].wake
                /\ IF monitors[c].active
                   THEN loops'[c].pc = "check" /\ loops'[c].cyc = loops[c].cyc + 1
                   ELSE loops'[c].pc = "returned"]_vars

\* C8 witness: after a faulted cycle and its 300 s the loop is in a further
\* cycle, the monitor still active.
C8_Witness ==
    \E c \in Calls :
        /\ loops[c].pc = "check"
        /\ loops[c].cyc >= 2
        /\ monitors[c].active
        /\ \E i \in EntriesOf(c, loops[c].cyc - 1) : IsFaultAlert(alerts_queue[i])

\* C9: for each monitor (the dict and loop one start call created) two fault
\* alerts in the log are at least 300 s apart, so no window of 5 minutes holds
\* two of them.
C9_OneFaultAlertPerWindow ==
    \A i, j \in DOMAIN alerts_queue :
        ( /\ i < j
          /\ origin[i].loop = origin[j].loop
          /\ IsFaultAlert(alerts_queue[i])
          /\ IsFaultAlert(alerts_queue[j]) ) =>
            alerts_queue[j].created_at - alerts_queue[i].created_at >= Backoff

\* C9 witness: one loop faulted in two cycles.
C9_Witness ==
    \E i, j \in DOMAIN alerts_queue :
        /\ i < j
        /\ origin[i].loop = origin[j].loop
        /\ IsFaultAlert(alerts_queue[i])
        /\ IsFaultAlert(alerts_queue[j])

\* C10: a start call with an empty target name is rejected: it adds no entry to
\* the registry and runs no check cycle.
C10_EmptyNameRejected ==
    /\ \A c \in Calls : Started(c) => monitors[c].person_name # << >>
    /\ \A monitor_id \in DOMAIN active_monitors :
          monitors[active_monitors[monitor_id]].person_name # << >>

\* C11: every alert created for a monitor, by a checker or by the fault handler,
\* has a channels field that is a subset of the monitor's notification channels:
\* this holds of the alerts the loop holds in new_alerts and of the entries it
\* appended to the log.
C11_AlertChannelsWithinMonitor ==
    \A c \in Calls :
        /\ \A n \in DOMAIN loops[c].new_alerts :
              Range(loops[c].new_alerts[n].channels) \subseteq Range(monitors[c].channels)
        /\ \A i \in AppendedBy(c) :
              Range(alerts_queue[i].channels) \subseteq Range(monitors[c].channels)

\* _process_alert has returned for entry i of the log
Processed(i) ==
    /\ \A c \in Calls : ~(loops[c].pc = "dispatch" /\ loops[c].cur = i)
    /\ ~(completion.pc = "post" /\ completion.cur = i)

\* C12: _process_alert appends the alert to the log before it dispatches it, and
\* the dispatchers it invokes for an alert are exactly the channels in
\* alert.channels: every entry of the log has its dispatch record, empty or begun
\* only after the append, and once _process_alert has returned the dispatchers
\* invoked are the set alert.channels.
C12_DispatchFollowsAlertChannels ==
    /\ Len(dispatched) = Len(alerts_queue)
    /\ \A i \in DOMAIN alerts_queue :
          Processed(i) => Range(dispatched[i]) = Range(alerts_queue[i].channels)

\* the entries of the log a loop appended before its current cycle
EarlierEntries(c) ==
    { i \in DOMAIN origin : origin[i].loop = c /\ origin[i].cyc < loops[c].cyc }

\* entry i of the log has had every dispatcher of its monitor's channel list
FullyDispatched(i) ==
    dispatched[i] = DispatchersOf(monitors[origin[i].loop].channels)

\* C13: cycles are sequential with a barrier.  While the checkers of a cycle are
\* awaited (the loop is at "check") the loop has logged no alert of that cycle,
\* and every alert of its earlier cycles has had all its dispatchers; every
\* checker alert the loop logs in a cycle is one of new_alerts, the combined
\* result of the four checkers; and the loop sleeps only with all its alerts
\* dispatched.
C13_CycleBarrier ==
    \A c \in Calls :
        /\ loops[c].pc = "check" => EntriesOf(c, loops[c].cyc) = {}
        /\ loops[c].pc \in {"check", "sleep", "backoff", "returned"} =>
              \A i \in AppendedBy(c) : FullyDispatched(i)
        /\ \A i \in EarlierEntries(c) : FullyDispatched(i)
        /\ loops[c].pc \in {"dispatch", "sleep", "backoff"} =>
              \A i \in EntriesOf(c, loops[c].cyc) :
                 \/ IsFaultAlert(alerts_queue[i])
                 \/ \E n \in DOMAIN loops[c].new_alerts :
                       alerts_queue[i] = loops[c].new_alerts[n]

\* C13 witness: the loop is in the checkers of a second cycle after a cycle
\* that logged and dispatched an alert.
C13_Witness ==
    \E c \in Calls :
        /\ loops[c].pc = "check"
        /\ loops[c].cyc >= 2
        /\ EarlierEntries(c) # {}
        /\ \E i \in EarlierEntries(c) :
              ~IsFaultAlert(alerts_queue[i]) /\ Len(dispatched[i]) >= 2

\* C14: the alert log is append-only: in every step the log before the step is a
\* prefix of the log after it, so no entry is modified, reordered or removed.
C14_LogAppendOnly ==
    [][/\ Len(alerts_queue') >= Len(alerts_queue)
       /\ SubSeq(alerts_queue', 1, Len(alerts_queue)) = alerts_queue]_vars

\* C14 witness: get_recent_alerts has just left an older alert out of its result
\* and the log still holds it.
C14_Witness ==
    /\ recent.called
    /\ Len(recent.result) < Len(alerts_queue)
    /\ completion.pc = "done"
    /\ \E c \in Calls : Started(c) /\ AppendedBy(c) # {}

\* C15: no lost updates on the alert log: whatever the interleaving of the
\* loops and the completion notification, the log holds the alert of every
\* _process_alert call made so far exactly once, in call order, so its length is
\* the number of calls.
C15_NoLostUpdate ==
    /\ Len(alerts_queue) = Len(origin)
    /\ \A i \in DOMAIN origin : alerts_queue[i] = origin[i].alert

\* C15 witness: a loop appended an alert while another loop and the completion
\* notification were each suspended inside _process_alert, in a POST.
C15_Witness ==
    \E c, d \in Calls :
        /\ c # d
        /\ loops[c].pc = "dispatch"
        /\ loops[d].pc = "dispatch"
        /\ completion.pc = "post"
        /\ loops[c].cur < completion.cur
        /\ completion.cur < loops[d].cur

\* C16: the registry entry of a valid start call, once written, is changed
\* only by the loop writing
\* last_check and by stop writing active = false: in every step each registered
\* id stays registered, for the dict of the same start call (no later start
\* call replaces it), whose id, person name, person id, channels and check
\* interval stay as they are and whose active flag never goes back to true.
C16_RegistryEntryStable ==
    [][\A monitor_id \in DOMAIN active_monitors :
        Valid(active_monitors[monitor_id]) =>
          /\ monitor_id \in DOMAIN active_monitors'
          /\ active_monitors'[monitor_id] = active_monitors[monitor_id]
          /\ LET c == active_monitors[monitor_id]
             IN /\ monitors'[c].id = monitors[c].id
                /\ monitors'[c].person_name = monitors[c].person_name
                /\ monitors'[c].person_id = monitors[c].person_id
                /\ monitors'[c].channels = monitors[c].channels
                /\ monitors'[c].check_interval = monitors[c].check_interval
                /\ monitors'[c].active => monitors[c].active]_vars

\* C17: get_recent_alerts(hours) returns exactly the alerts of the log created
\* not earlier than `hours` hours before the call, in log order, the alert
\* created exactly `hours` hours before the call included.
C17_RecentAlertsInclusive ==
    recent.called =>
        recent.result =
            SelectSeq(alerts_queue,
                      LAMBDA alert : alert.created_at >= recent.at - recent.hours * Hour)

\* two alerts report the same thing: they agree in everything but id and
\* created_at
SameContent(a, b) ==
    /\ a.title = b.title
    /\ a.severity = b.severity
    /\ a.source = b.source
    /\ a.target_person = b.target_person
    /\ a.target_id = b.target_id
    /\ a.channels = b.channels

\* C18: no deduplication across cycles.  When a cycle ends, every alert its
\* checkers returned has an entry of its own in the log among the entries of
\* that cycle, with every dispatcher of the channel list invoked for it, also
\* when the log already holds an alert of the same content from an earlier
\* cycle; that earlier entry is still there, dispatched as well.
C18_NoDeduplication ==
    \A c \in Calls :
        loops[c].pc = "sleep" =>
            \A n \in DOMAIN loops[c].new_alerts :
                /\ \E i \in EntriesOf(c, loops[c].cyc) :
                      /\ alerts_queue[i] = loops[c].new_alerts[n]
                      /\ FullyDispatched(i)
                /\ \A j \in EarlierEntries(c) :
                      SameContent(alerts_queue[j], loops[c].new_alerts[n]) =>
                          /\ FullyDispatched(j)
                          /\ alerts_queue[j] # loops[c].new_alerts[n]

\* C18 witness: two consecutive cycles ended with an alert of the same content
\* each.
C18_Witness ==
    \E c \in Calls :
        /\ loops[c].pc = "sleep"
        /\ loops[c].cyc >= 2
        /\ \E n \in DOMAIN loops[c].new_alerts :
              \E j \in EntriesOf(c, loops[c].cyc - 1) :
                 SameContent(alerts_queue[j], loops[c].new_alerts[n])

\* the step is one of monitor a: its loop moved, or its monitor_id was passed to
\* stop_monitoring
StepOf(a) ==
    \/ loops'[a] # loops[a]
    \/ stopRet'.called /\ stopRet'.id = monitors[a].id

\* C19: monitors are independent: a step of monitor a (a cycle, a fault, the
\* end of a sleep, a stop of a's monitor_id) leaves every other monitor b as it
\* is: b's dict (active, last_check), b's loop and the log entries b appended.
C19_MonitorsIndependent ==
    [][\A a, b \in Calls :
          (a # b /\ Valid(a) /\ Valid(b) /\ StepOf(a)) =>
              /\ monitors'[b] = monitors[b]
              /\ loops'[b] = loops[b]
              /\ \A i \in AppendedBy(b) :
                    i \in AppendedBy(b)' /\ alerts_queue'[i] = alerts_queue[i]]_vars

\* C20: _check_courtlistener never propagates an error to the loop.  In a cycle
\* in which no fault was injected into the other three checkers the fault
\* handler is not entered and no fault alert is logged, however the
\* courtlistener lookup came out (no token, transport error, status other than
\* 200, malformed body); the checker's result is a list: empty, or the alerts
\* found before the failure.
C20_CourtlistenerNeverPropagates ==
    (checked.loop # 0 /\ ~checked.injected) =>
        LET c == checked.loop
            found == SelectSeq(loops[c].new_alerts,
                               LAMBDA alert : alert.source = "courtlistener")
        IN /\ ~loops[c].handling
           /\ loops[c].pc \in {"dispatch", "sleep"}
           /\ \A i \in EntriesOf(c, loops[c].cyc) : ~IsFaultAlert(alerts_queue[i])
           /\ checked.courtlistener \in
                 {"no_token", "transport_error", "status_500", "malformed", "no_match"}
                    => found = << >>
           /\ checked.courtlistener = "match_then_malformed" => Len(found) = 1

\* C20 witness: the courtlistener lookup failed and the cycle went on to the
\* alert of another checker.
C20_Witness ==
    /\ checked.loop # 0
    /\ ~checked.injected
    /\ checked.courtlistener \in {"transport_error", "malformed"}
    /\ loops[checked.loop].pc = "dispatch"
    /\ Len(loops[checked.loop].new_alerts) >= 1

\* the place of a checker in the order the loop awaits them, by the source
\* name its alerts carry
CheckerRank(source) ==
    CASE source = "courtlistener" -> 1
      [] source = "vinelink" -> 2
      [] source = "pacer" -> 3
      [] OTHER -> 4

\* the alerts a loop has logged in its current cycle, in log order
CycleAlerts(c) ==
    LET entries == EntriesOf(c, loops[c].cyc)
    IN [k \in 1..Cardinality(entries) |-> alerts_queue[
            CHOOSE i \in entries : Cardinality({h \in entries : h <= i}) = k]]

\* C21: within one check cycle the alerts are logged and dispatched in the order
\* the checkers returned them.  new_alerts holds the courtlistener alerts first,
\* then vinelink, pacer and state court alerts, the courtlistener alerts in the
\* order of the search results; the entries a cycle has logged are a prefix of
\* new_alerts, as long as the number of alerts _process_alert was called for;
\* and every entry of the cycle but the last one logged has had all its
\* dispatchers.
C21_CycleOrder ==
    \A c \in Calls :
        (loops[c].pc \in {"dispatch", "sleep"} /\ ~loops[c].handling) =>
            LET new_alerts == loops[c].new_alerts
                logged == CycleAlerts(c)
                entries == EntriesOf(c, loops[c].cyc)
            IN /\ \A m, n \in DOMAIN new_alerts :
                     m < n =>
                        /\ CheckerRank(new_alerts[m].source)
                              <= CheckerRank(new_alerts[n].source)
                        /\ (new_alerts[m].source = "courtlistener"
                            /\ new_alerts[n].source = "courtlistener")
                              => new_alerts[m].id[2] < new_alerts[n].id[2]
               /\ Len(logged) = IF loops[c].pc = "dispatch" THEN loops[c].ai
                                ELSE Len(new_alerts)
               /\ logged = SubSeq(new_alerts, 1, Len(logged))
               /\ \A i, j \in entries : i < j => FullyDispatched(i)

\* C21 witness: a cycle whose checkers returned two courtlistener alerts and a
\* vinelink alert has logged and dispatched all three.
C21_Witness ==
    \E c \in Calls :
        /\ loops[c].pc = "sleep"
        /\ ~loops[c].handling
        /\ Len(loops[c].new_alerts) = 3
        /\ loops[c].new_alerts[1].source = "courtlistener"
        /\ loops[c].new_alerts[2].source = "courtlistener"
        /\ loops[c].new_alerts[3].source = "vinelink"
        /\ Cardinality(EntriesOf(c, loops[c].cyc)) = 3
        /\ \A i \in EntriesOf(c, loops[c].cyc) : Len(dispatched[i]) >= 2

\* datetime.isoformat()
IsoFormat(t) == << "iso", t >>

\* the JSON body _send_webhook_alert posts for an alert.  The alert's message
\* and metadata, which the alerts here do not carry, stand under their keys as
\* values named after the alert
WebhookPayload(alert) ==
    [ alert_id |-> alert.id, title |-> alert.title,
      message |-> << "message", alert.id >>, severity |-> alert.severity,
      source |-> alert.source, target_person |-> alert.target_person,
      target_id |-> alert.target_id, created_at |-> IsoFormat(alert.created_at),
      metadata |-> << "metadata", alert.id >> ]

\* the number of POSTs made for entry i of the log: one each time the webhook
\* dispatcher ran with a URL configured
WebhookPosts(i) ==
    IF config.default_url
    THEN Cardinality({ k \in DOMAIN dispatched[i] : dispatched[i][k] = "webhook" })
    ELSE 0

\* C22: for a monitor whose channels are {webhook}, with a webhook URL
\* configured, every alert of a check cycle causes exactly one POST, whose JSON
\* body has the fields alert_id, title, message, severity, source, target_name,
\* target_id, created_at and metadata, target_name being the monitor's target
\* name and severity the alert's severity value.
C22_WebhookPayload ==
    \A c \in Calls :
        (Started(c) /\ monitors[c].channels = << "webhook" >> /\ config.default_url) =>
            \A i \in AppendedBy(c) :
                Processed(i) =>
                    LET payload == WebhookPayload(alerts_queue[i])
                    IN /\ WebhookPosts(i) = 1
                       /\ payload.severity = alerts_queue[i].severity
                       /\ DOMAIN payload =
                             { "alert_id", "title", "message", "severity", "source",
                               "target_name", "target_id", "created_at", "metadata" }
                       /\ \E k \in DOMAIN payload :
                             /\ k = "target_name"
                             /\ payload[k] = monitors[c].person_name

\* the answers to the POST with a status from 200 to 299
Status2xx == { "status_200", "status_204" }

\* C23: a failed webhook delivery is terminal and not fatal.  When the POST is
\* answered with a status outside 2xx or the transport raises, no second POST
\* is made for the alert and the loop goes on: in a cycle outside the fault
\* handler it stays outside, and when the cycle ends it has written last_check
\* and sleeps the check interval.  An answer with a 2xx status is not treated as
\* a failure.
C23_WebhookFailureTerminal ==
    (delivered.loop # 0 /\ delivered.channel = "webhook" /\ config.default_url) =>
        LET c == delivered.loop
        IN /\ delivered.out \in { "status_500", "transport_error" } =>
                /\ WebhookPosts(delivered.entry) = 1
                /\ ~IsFaultAlert(alerts_queue[delivered.entry]) =>
                      /\ ~loops[c].handling
                      /\ loops[c].pc \in { "dispatch", "sleep" }
                      /\ \A i \in EntriesOf(c, loops[c].cyc) :
                            ~IsFaultAlert(alerts_queue[i])
                      /\ loops[c].pc = "sleep" =>
                            /\ monitors[c].last_check = now
                            /\ loops[c].wake = now + monitors[c].check_interval
           /\ delivered.out \in Status2xx => ~DeliveryFailed(delivered.out)

\* C24: with no mail password configured _send_email_alert is a no-op.  It
\* returns before the SMTP session (nothing is sent, nothing fails, nothing is
\* raised), the alert stays in the log, and the channel loop goes on: the
\* dispatchers invoked so far are the first ones of the channel list, the next
\* one is pending, and once _process_alert has returned all of them were invoked.
C24_EmailUnconfiguredNoOp ==
    (delivered.loop # 0 /\ delivered.channel = "email" /\ ~config.password) =>
        LET c == delivered.loop
            i == delivered.entry
            all == DispatchersOf(monitors[c].channels)
            n == Len(dispatched[i])
        IN /\ delivered.out = "not_configured"
           /\ ~DeliveryFailed(delivered.out)
           /\ "email" \notin loops[c].failed
           /\ i \in AppendedBy(c)
           /\ ~IsFaultAlert(alerts_queue[i]) => ~loops[c].handling
           /\ Processed(i) => dispatched[i] = all
           /\ ~Processed(i) =>
                 /\ n < Len(all)
                 /\ dispatched[i] = SubSeq(all, 1, n)
                 /\ monitors[c].channels[loops[c].ci] = all[n + 1]

\* C24 witness: the email dispatcher has returned without a password and the
\* webhook dispatcher of the same alert, with a URL configured, is pending.
C24_Witness ==
    /\ delivered.loop # 0
    /\ delivered.channel = "email"
    /\ ~config.password
    /\ config.default_url
    /\ loops[delivered.loop].pc = "dispatch"
    /\ loops[delivered.loop].cur = delivered.entry
    /\ monitors[delivered.loop].channels[loops[delivered.loop].ci] = "webhook"
    /\ Len(monitors[delivered.loop].channels) = 3

\* C25: alert ids are unique in the alert log, also for alerts the same checker
\* produces for the same person name from two different monitors at the same
\* clock reading.  Stated for entries of monitors started with a valid name
\* under monitor_ids that differ, so that no collision of monitor_ids is
\* involved.
C25_AlertIdsUnique ==
    \A i, j \in DOMAIN alerts_queue :
        (/\ i < j
         /\ origin[i].loop # 0
         /\ origin[j].loop # 0
         /\ Valid(origin[i].loop)
         /\ Valid(origin[j].loop)
         /\ \/ origin[i].loop = origin[j].loop
            \/ monitors[origin[i].loop].id # monitors[origin[j].loop].id)
            => alerts_queue[i].id # alerts_queue[j].id

\* the source names under which checker j tags its alerts
SourceNames(j) ==
    CASE j = 1 -> { "courtlistener" }
      [] j = 2 -> { "vinelink" }
      [] j = 3 -> { "pacer" }
      [] j = 4 -> { StateCourtSource(state) : state \in StateCourtsOutcomes \ {"none", "raise"} }

\* C26: every alert a source checker returns is tagged with that checker's own
\* source name and carries the monitor's target name as target_person: whatever
\* the outcome of checker j for a started monitor, each alert of its result has a
\* source of checker j and the monitor's person name; and every entry a check
\* cycle of the monitor put into the log has the monitor's person name and,
\* unless it is the fault alert of the loop, the source of one of the four
\* checkers.
C26_SourceTagging ==
    \A c \in Calls :
        Started(c) =>
            /\ \A j \in 1..4 :
                  \A out \in { outs[j] : outs \in CheckerOutcomes } :
                     LET result == CheckerResult(j, [k \in 1..4 |-> out],
                                                 monitors[c], now)
                     IN \A n \in DOMAIN result :
                           /\ result[n].source \in SourceNames(j)
                           /\ result[n].target_person = monitors[c].person_name
            /\ \A i \in AppendedBy(c) :
                  /\ alerts_queue[i].target_person = monitors[c].person_name
                  /\ \/ IsFaultAlert(alerts_queue[i])
                     \/ \E j \in 1..4 : alerts_queue[i].source \in SourceNames(j)

\* C26 witness: a cycle has logged alerts of two different checkers, one of
\* them the state courts checker.
C26_Witness ==
    \E c \in Calls :
        \E i, j \in AppendedBy(c) :
            /\ alerts_queue[i].source = "vinelink"
            /\ alerts_queue[j].source \in SourceNames(4)
            /\ alerts_queue[i].target_person = << "a", " ", "b" >>

\* C27: liveness of stop.  A loop leaves only at a loop test that reads
\* active = false in its own dict, and under fairness every await before that
\* test ends; so "every loop started under a stopped monitor_id eventually
\* terminates and its start call returns the id" is: once stop_monitoring has
\* returned true for the id of a loop that has not returned, the loop's dict is
\* inactive, and a loop whose dict is inactive ends at its next loop test, its
\* start call handing back the monitor_id.
C27_StoppedLoopTerminates ==
    [][\A c \in Calls :
          Valid(c) =>
              /\ (atStop'[c] # NotStopped /\ loops'[c].pc # "returned") =>
                    ~monitors'[c].active
              /\ (/\ ~monitors[c].active
                  /\ loops[c].pc \in {"sleep", "backoff"}
                  /\ loops'[c] # loops[c]) =>
                    /\ loops'[c].pc = "returned"
                    /\ ret'[c] = monitors[c].id]_vars

\* C28: a monitor's last_check is written only at the end of a check cycle in
\* which the four checkers returned and every alert was logged and dispatched
\* without an exception reaching the loop.  A step that changes last_check ends
\* such a cycle: the loop goes from its checkers or a dispatch to the sleep of
\* the check interval, outside the fault handler, every alert of new_alerts is
\* in the log with all its dispatchers invoked, and the new value is the clock
\* reading, not earlier than the old one.  A step in which the loop is in the
\* fault handler, or enters it, leaves last_check as it is.
C28_LastCheckOnlyAfterCleanCycle ==
    [][\A c \in Calls :
          /\ monitors'[c].last_check # monitors[c].last_check =>
                /\ Started(c)
                /\ loops[c].pc \in {"check", "dispatch"}
                /\ ~loops[c].handling
                /\ loops'[c].pc = "sleep"
                /\ ~loops'[c].handling
                /\ monitors'[c].last_check = now
                /\ monitors'[c].last_check >= monitors[c].last_check
                /\ Len(loops'[c].new_alerts) = Cardinality(EntriesOf(c, loops[c].cyc)')
                /\ \A i \in EntriesOf(c, loops[c].cyc)' :
                      /\ ~IsFaultAlert(alerts_queue'[i])
                      /\ dispatched'[i] = DispatchersOf(monitors[c].channels)
          /\ (Started(c) /\ (loops[c].handling \/ loops'[c].handling)) =>
                monitors'[c].last_check = monitors[c].last_check]_vars

\* C28 witness: a cycle has ended in the fault handler and last_check still
\* holds the earlier reading the cycle before it wrote.
C28_Witness ==
    \E c \in Calls :
        /\ loops[c].pc = "backoff"
        /\ loops[c].handling
        /\ loops[c].cyc >= 2
        /\ monitors[c].last_check # NoTime
        /\ monitors[c].last_check < now

\* the channel list has a name without a branch in _process_alert's if/elif chain
HasUnknownChannel(channels) ==
    \E k \in DOMAIN channels : channels[k] \notin Dispatchers

\* C29: a channel name outside {"email", "webhook", "sms", "slack"} is skipped
\* silently.  For a monitor whose list has such a name every alert of a cycle
\* is still in the log when the cycle sleeps; no dispatcher is invoked under
\* that name; the dispatchers of the other names are invoked, in list order,
\* by the time _process_alert returns; and no error is raised: the fault
\* handler is entered only in cycles that logged no checker alert.
C29_UnknownChannelSkipped ==
    \A c \in Calls :
        (Started(c) /\ HasUnknownChannel(monitors[c].channels)) =>
            /\ \A i \in AppendedBy(c) :
                  /\ Range(dispatched[i]) \subseteq Dispatchers
                  /\ Processed(i) => dispatched[i] = DispatchersOf(monitors[c].channels)
            /\ \A i \in EntriesOf(c, loops[c].cyc) :
                  loops[c].handling => IsFaultAlert(alerts_queue[i])
            /\ (loops[c].pc = "sleep" /\ ~loops[c].handling) =>
                  CycleAlerts(c) = loops[c].new_alerts

\* C29 witness: a monitor with channels email, chat, webhook has logged an
\* alert and invoked the email and the webhook dispatcher for it.
C29_Witness ==
    \E c \in Calls :
        /\ monitors[c].channels = << "email", "chat", "webhook" >>
        /\ loops[c].pc = "sleep"
        /\ ~loops[c].handling
        /\ \E i \in EntriesOf(c, loops[c].cyc) :
              dispatched[i] = << "email", "webhook" >>

\* C30: stopping is permanent and idempotent.  No step sets the active flag of
\* a started monitor's dict back to true once it is false; and a
\* stop_monitoring call on the monitor_id of a valid start call that was stopped
\* before returns true again and leaves the registry, the dicts in it and the
\* alert log as they were.
C30_StopPermanentIdempotent ==
    [][/\ \A c \in Calls :
             (Started(c) /\ ~monitors[c].active) => ~monitors'[c].active
       /\ (/\ stopRet'.called
           /\ \E c \in Calls :
                 /\ Valid(c)
                 /\ monitors[c].id = stopRet'.id
                 /\ atStop[c] # NotStopped) =>
             /\ stopRet'.result
             /\ active_monitors' = active_monitors
             /\ monitors' = monitors
             /\ alerts_queue' = alerts_queue]_vars

====
